---- MODULE Spec2Model ----
(***************************************************************************)
(* Model of src/src/doubly_linked_list.py: the DoublyLinkedList container  *)
(* and its Node records.  Nodes live in a heap (a function from node        *)
(* identities to records); head/tail/next/prev hold node identities or     *)
(* Null (Python's None).  A Node that no reference reaches any more is     *)
(* gone from the heap, as an unreferenced Python object is; one that a     *)
(* link still reaches stays, with whatever links the code left in it.      *)
(***************************************************************************)
EXTENDS Integers, Sequences, FiniteSets

\* ------------------------------------------------------------------ bounds

\* Number of Node objects alive at once (the appends stop there).
MaxNodes == 4

\* Number of Node objects alive at once while generators run.
MaxIterNodes == 2

\* Element values are drawn from 1..MaxVal.
MaxVal == 2

Values == 1..MaxVal

\* Indexes handed to get(): negative, valid, == length and beyond.
Indexes == (0 - 1)..MaxNodes

NodeIds == 1..MaxNodes

\* ------------------------------------------------------------ Node, results

\* None, as a node reference.
Null == 0

\* Node.__init__: value stored, next and prev None.
Node(value) == [value |-> value, next |-> Null, prev |-> Null]

\* What a call hands back: a returned int, a returned None, or a raised error.
Return(v) == [kind |-> "value", val |-> v, msg |-> ""]

ReturnNone == [kind |-> "None", val |-> 0, msg |-> ""]

Raise(exc, msg) == [kind |-> exc, val |-> 0, msg |-> msg]

\* ------------------------------------------------------------------- state

VARIABLES
    head,      \* DoublyLinkedList.head
    tail,      \* DoublyLinkedList.tail
    length,    \* DoublyLinkedList.length
    heap,      \* the Node objects alive, by identity
    lastOp,    \* the public operation called last
    arg,       \* its argument (value or index; 0 when it takes none)
    result,    \* what it returned or raised
    seq,       \* observer: the abstract sequence the calls so far describe
    expected,  \* observer: what the abstract sequence says the last call returns
    run,       \* observer: the current run of consecutive same-side appends
    runSide,   \* observer: the side of that run
    popped,    \* observer: results of the pops that directly followed the run
    popSide,   \* observer: the side of those pops
    ll,        \* the DoublyLinkedList of linked_list.py (head, tail, its nodes)
    llResult,  \* what the last call on it returned
    frame,     \* the call in progress, statement by statement, or the idle frame
    its        \* the generators __iter__ has handed out

listVars == <<head, tail, length, heap>>

callVars == <<lastOp, arg, result>>

obsVars == <<seq, expected, run, runSide, popped, popSide>>

\* What the calls on doubly_linked_list.py alone leave untouched.
extraVars == <<ll, llResult, frame, its>>

vars == <<head, tail, length, heap, lastOp, arg, result,
          seq, expected, run, runSide, popped, popSide,
          ll, llResult, frame, its>>

\* The list object and its nodes, as one value.
Self == [head |-> head, tail |-> tail, length |-> length, heap |-> heap]

\* No call in progress.
IdleFrame == [op |-> "idle", pc |-> 0, value |-> 0, new_node |-> Null,
              removed_value |-> 0]

\* The generators the callers hold (two, to run them against each other).
IterIds == {1, 2}

\* A generator __iter__ has just returned: its body has not run yet.  With
\* the generator's own state (state, current) go an observer's notes: the
\* values it yielded, the nodes it yielded them from, the nodes of the list
\* when its body started, and what calls have changed the list since.
NewIterator == [state |-> "created", current |-> Null, yielded |-> << >>,
                visited |-> << >>, start |-> << >>, contents |-> << >>,
                mutated |-> "no"]

\* ------------------------------------------------------------- traversals

RECURSIVE IterFrom(_, _, _)
\* __iter__: values from `current` following next until None.  `fuel` stops
\* the walk on a cyclic chain after more values than there are nodes.
IterFrom(h, current, fuel) ==
    IF current = Null \/ fuel = 0
    THEN <<>>
    ELSE <<h[current].value>> \o IterFrom(h, h[current].next, fuel - 1)

\* list(dll)
Iter(s) == IterFrom(s.heap, s.head, Cardinality(DOMAIN s.heap) + 1)

RECURSIVE ChainNext(_, _, _)
\* The node identities met following next from `current`.
ChainNext(h, current, fuel) ==
    IF current = Null \/ fuel = 0
    THEN <<>>
    ELSE <<current>> \o ChainNext(h, h[current].next, fuel - 1)

RECURSIVE ChainPrev(_, _, _)
\* The node identities met following prev from `current`.
ChainPrev(h, current, fuel) ==
    IF current = Null \/ fuel = 0
    THEN <<>>
    ELSE <<current>> \o ChainPrev(h, h[current].prev, fuel - 1)

\* The nodes of the list from head by next, and from tail by prev.
Forward(s) == ChainNext(s.heap, s.head, Cardinality(DOMAIN s.heap) + 1)

Backward(s) == ChainPrev(s.heap, s.tail, Cardinality(DOMAIN s.heap) + 1)

Reverse(q) == [i \in 1..Len(q) |-> q[Len(q) + 1 - i]]

\* ------------------------------------------------------------ object store

\* Node(value) as a new object: the heap with it, under an identity not in use.
NewId(h) == CHOOSE n \in NodeIds \ DOMAIN h : \A m \in NodeIds \ DOMAIN h : n <= m

Alloc(h, id, value) == [n \in DOMAIN h \cup {id} |-> IF n = id THEN Node(value) ELSE h[n]]

RECURSIVE Reach(_, _)
\* The nodes some chain of next/prev references reaches from the nodes S.
Reach(h, S) ==
    LET T == (S \cup {h[n].next : n \in S} \cup {h[n].prev : n \in S}) \ {Null}
    IN  IF T = S THEN S ELSE Reach(h, T)

\* The objects still referenced once a call has returned: those head and tail
\* reach.  The others are gone.
Collect(r) ==
    LET live == Reach(r.heap, {r.head, r.tail} \ {Null})
    IN  [r EXCEPT !.heap = [n \in live |-> r.heap[n]]]

\* ------------------------------------------------------------- operations

\* Variant: append_left without the final `self.head = new_node`.
append_left_keeps_head(s, value) ==
    LET new_node == NewId(s.heap)
        h1 == Alloc(s.heap, new_node, value)
        len1 == s.length + 1
    IN  IF s.head = Null
        THEN [head |-> new_node, tail |-> new_node, length |-> len1,
              heap |-> h1, ret |-> ReturnNone]
        ELSE LET h2 == [h1 EXCEPT ![new_node].next = s.head]
                 h3 == [h2 EXCEPT ![s.head].prev = new_node]
             IN  [head |-> s.head, tail |-> s.tail, length |-> len1,
                  heap |-> h3, ret |-> ReturnNone]

\* Variant: append_left without `self.head.prev = new_node`.
append_left_no_prev(s, value) ==
    LET new_node == NewId(s.heap)
        h1 == Alloc(s.heap, new_node, value)
        len1 == s.length + 1
    IN  IF s.head = Null
        THEN [head |-> new_node, tail |-> new_node, length |-> len1,
              heap |-> h1, ret |-> ReturnNone]
        ELSE LET h2 == [h1 EXCEPT ![new_node].next = s.head]
                 h3 == h2
             IN  [head |-> new_node, tail |-> s.tail, length |-> len1,
                  heap |-> h3, ret |-> ReturnNone]

\* append_left(value): the list after the call, and what it returns.
append_left(s, value) ==
    LET new_node == NewId(s.heap)
        h1 == Alloc(s.heap, new_node, value)
        len1 == s.length + 1
    IN  IF s.head = Null
        THEN [head |-> new_node, tail |-> new_node, length |-> len1,
              heap |-> h1, ret |-> ReturnNone]
        ELSE LET h2 == [h1 EXCEPT ![new_node].next = s.head]
                 h3 == [h2 EXCEPT ![s.head].prev = new_node]
             IN  [head |-> new_node, tail |-> s.tail, length |-> len1,
                  heap |-> h3, ret |-> ReturnNone]

\* Variant: append_right without `new_node.prev = self.tail`.
append_right_no_prev(s, value) ==
    LET new_node == NewId(s.heap)
        h1 == Alloc(s.heap, new_node, value)
        len1 == s.length + 1
    IN  IF s.tail = Null
        THEN [head |-> new_node, tail |-> new_node, length |-> len1,
              heap |-> h1, ret |-> ReturnNone]
        ELSE LET h3 == [h1 EXCEPT ![s.tail].next = new_node]
             IN  [head |-> s.head, tail |-> new_node, length |-> len1,
                  heap |-> h3, ret |-> ReturnNone]

\* Variant: append_right without `self.length += 1`.
append_right_no_increment(s, value) ==
    LET new_node == NewId(s.heap)
        h1 == Alloc(s.heap, new_node, value)
        len1 == s.length
    IN  IF s.tail = Null
        THEN [head |-> new_node, tail |-> new_node, length |-> len1,
              heap |-> h1, ret |-> ReturnNone]
        ELSE LET h2 == [h1 EXCEPT ![new_node].prev = s.tail]
                 h3 == [h2 EXCEPT ![s.tail].next = new_node]
             IN  [head |-> s.head, tail |-> new_node, length |-> len1,
                  heap |-> h3, ret |-> ReturnNone]

\* append_right(value)
append_right(s, value) ==
    LET new_node == NewId(s.heap)
        h1 == Alloc(s.heap, new_node, value)
        len1 == s.length + 1
    IN  IF s.tail = Null
        THEN [head |-> new_node, tail |-> new_node, length |-> len1,
              heap |-> h1, ret |-> ReturnNone]
        ELSE LET h2 == [h1 EXCEPT ![new_node].prev = s.tail]
                 h3 == [h2 EXCEPT ![s.tail].next = new_node]
             IN  [head |-> s.head, tail |-> new_node, length |-> len1,
                  heap |-> h3, ret |-> ReturnNone]

\* Variant: pop_left without `self.length -= 1`.
pop_left_no_decrement(s) ==
    IF s.head = Null
    THEN [head |-> s.head, tail |-> s.tail, length |-> s.length,
          heap |-> s.heap, ret |-> ReturnNone]
    ELSE LET removed_value == s.heap[s.head].value
         IN  IF s.head = s.tail
             THEN [head |-> Null, tail |-> Null, length |-> 0,
                   heap |-> s.heap, ret |-> Return(removed_value)]
             ELSE LET head1 == s.heap[s.head].next
                  IN  IF head1 = Null
                      THEN [head |-> head1, tail |-> s.tail,
                            length |-> s.length, heap |-> s.heap,
                            ret |-> Raise("AssertionError", "")]
                      ELSE [head |-> head1, tail |-> s.tail,
                            length |-> s.length,
                            heap |-> [s.heap EXCEPT ![head1].prev = Null],
                            ret |-> Return(removed_value)]

\* Variant: pop_left without `self.head.prev = None`.
pop_left_keeps_prev(s) ==
    IF s.head = Null
    THEN [head |-> s.head, tail |-> s.tail, length |-> s.length,
          heap |-> s.heap, ret |-> ReturnNone]
    ELSE LET removed_value == s.heap[s.head].value
         IN  IF s.head = s.tail
             THEN [head |-> Null, tail |-> Null, length |-> 0,
                   heap |-> s.heap, ret |-> Return(removed_value)]
             ELSE LET head1 == s.heap[s.head].next
                  IN  IF head1 = Null
                      THEN [head |-> head1, tail |-> s.tail,
                            length |-> s.length, heap |-> s.heap,
                            ret |-> Raise("AssertionError", "")]
                      ELSE [head |-> head1, tail |-> s.tail,
                            length |-> s.length - 1,
                            heap |-> s.heap,
                            ret |-> Return(removed_value)]

\* Variant: pop_left decrementing length before the emptiness test.
pop_left_counts_empty(s) ==
    IF s.head = Null
    THEN [head |-> s.head, tail |-> s.tail, length |-> s.length - 1,
          heap |-> s.heap, ret |-> ReturnNone]
    ELSE LET removed_value == s.heap[s.head].value
         IN  IF s.head = s.tail
             THEN [head |-> Null, tail |-> Null, length |-> 0,
                   heap |-> s.heap, ret |-> Return(removed_value)]
             ELSE LET head1 == s.heap[s.head].next
                  IN  IF head1 = Null
                      THEN [head |-> head1, tail |-> s.tail,
                            length |-> s.length, heap |-> s.heap,
                            ret |-> Raise("AssertionError", "")]
                      ELSE [head |-> head1, tail |-> s.tail,
                            length |-> s.length - 1,
                            heap |-> [s.heap EXCEPT ![head1].prev = Null],
                            ret |-> Return(removed_value)]

\* pop_left()
pop_left(s) ==
    IF s.head = Null
    THEN [head |-> s.head, tail |-> s.tail, length |-> s.length,
          heap |-> s.heap, ret |-> ReturnNone]
    ELSE LET removed_value == s.heap[s.head].value
         IN  IF s.head = s.tail
             THEN [head |-> Null, tail |-> Null, length |-> 0,
                   heap |-> s.heap, ret |-> Return(removed_value)]
             ELSE LET head1 == s.heap[s.head].next
                  IN  IF head1 = Null
                      THEN [head |-> head1, tail |-> s.tail,
                            length |-> s.length, heap |-> s.heap,
                            ret |-> Raise("AssertionError", "")]
                      ELSE [head |-> head1, tail |-> s.tail,
                            length |-> s.length - 1,
                            heap |-> [s.heap EXCEPT ![head1].prev = Null],
                            ret |-> Return(removed_value)]

\* Variant: pop_right without `self.head = None` in the one-node branch.
pop_right_keeps_head(s) ==
    IF s.tail = Null
    THEN [head |-> s.head, tail |-> s.tail, length |-> s.length,
          heap |-> s.heap, ret |-> ReturnNone]
    ELSE LET removed_value == s.heap[s.tail].value
         IN  IF s.head = s.tail
             THEN [head |-> s.head, tail |-> Null, length |-> 0,
                   heap |-> s.heap, ret |-> Return(removed_value)]
             ELSE LET tail1 == s.heap[s.tail].prev
                  IN  IF tail1 = Null
                      THEN [head |-> s.head, tail |-> tail1,
                            length |-> s.length, heap |-> s.heap,
                            ret |-> Raise("AssertionError", "")]
                      ELSE [head |-> s.head, tail |-> tail1,
                            length |-> s.length - 1,
                            heap |-> [s.heap EXCEPT ![tail1].next = Null],
                            ret |-> Return(removed_value)]

\* Variant: pop_right reading `self.head.value`.
pop_right_head_value(s) ==
    IF s.tail = Null
    THEN [head |-> s.head, tail |-> s.tail, length |-> s.length,
          heap |-> s.heap, ret |-> ReturnNone]
    ELSE LET removed_value == s.heap[s.head].value
         IN  IF s.head = s.tail
             THEN [head |-> Null, tail |-> Null, length |-> 0,
                   heap |-> s.heap, ret |-> Return(removed_value)]
             ELSE LET tail1 == s.heap[s.tail].prev
                  IN  IF tail1 = Null
                      THEN [head |-> s.head, tail |-> tail1,
                            length |-> s.length, heap |-> s.heap,
                            ret |-> Raise("AssertionError", "")]
                      ELSE [head |-> s.head, tail |-> tail1,
                            length |-> s.length - 1,
                            heap |-> [s.heap EXCEPT ![tail1].next = Null],
                            ret |-> Return(removed_value)]

\* Variant: pop_right without `self.tail.next = None`.
pop_right_keeps_next(s) ==
    IF s.tail = Null
    THEN [head |-> s.head, tail |-> s.tail, length |-> s.length,
          heap |-> s.heap, ret |-> ReturnNone]
    ELSE LET removed_value == s.heap[s.tail].value
         IN  IF s.head = s.tail
             THEN [head |-> Null, tail |-> Null, length |-> 0,
                   heap |-> s.heap, ret |-> Return(removed_value)]
             ELSE LET tail1 == s.heap[s.tail].prev
                  IN  IF tail1 = Null
                      THEN [head |-> s.head, tail |-> tail1,
                            length |-> s.length, heap |-> s.heap,
                            ret |-> Raise("AssertionError", "")]
                      ELSE [head |-> s.head, tail |-> tail1,
                            length |-> s.length - 1,
                            heap |-> s.heap,
                            ret |-> Return(removed_value)]

\* pop_right()
pop_right(s) ==
    IF s.tail = Null
    THEN [head |-> s.head, tail |-> s.tail, length |-> s.length,
          heap |-> s.heap, ret |-> ReturnNone]
    ELSE LET removed_value == s.heap[s.tail].value
         IN  IF s.head = s.tail
             THEN [head |-> Null, tail |-> Null, length |-> 0,
                   heap |-> s.heap, ret |-> Return(removed_value)]
             ELSE LET tail1 == s.heap[s.tail].prev
                  IN  IF tail1 = Null
                      THEN [head |-> s.head, tail |-> tail1,
                            length |-> s.length, heap |-> s.heap,
                            ret |-> Raise("AssertionError", "")]
                      ELSE [head |-> s.head, tail |-> tail1,
                            length |-> s.length - 1,
                            heap |-> [s.heap EXCEPT ![tail1].next = Null],
                            ret |-> Return(removed_value)]

RECURSIVE StepsNext(_, _, _)
\* for _ in range(n): assert current; current = current.next
StepsNext(h, current, n) ==
    IF n <= 0 THEN [ok |-> TRUE, node |-> current]
    ELSE IF current = Null THEN [ok |-> FALSE, node |-> Null]
    ELSE StepsNext(h, h[current].next, n - 1)

RECURSIVE StepsPrev(_, _, _)
\* for _ in range(n): assert current; current = current.prev
StepsPrev(h, current, n) ==
    IF n <= 0 THEN [ok |-> TRUE, node |-> current]
    ELSE IF current = Null THEN [ok |-> FALSE, node |-> Null]
    ELSE StepsPrev(h, h[current].prev, n - 1)

\* Variant: get testing only `index >= self.length`.
get_no_negative_check(s, index) ==
    IF index >= s.length
    THEN Raise("IndexError", "Index out of range")
    ELSE IF index < s.length \div 2
    THEN LET w == StepsNext(s.heap, s.head, index)
         IN  IF ~w.ok \/ w.node = Null
             THEN Raise("AssertionError", "")
             ELSE Return(s.heap[w.node].value)
    ELSE LET w == StepsPrev(s.heap, s.tail, s.length - index - 1)
         IN  IF ~w.ok \/ w.node = Null
             THEN Raise("AssertionError", "")
             ELSE Return(s.heap[w.node].value)

\* Variant: get walking back `self.length - index` steps.
get_backward_off_by_one(s, index) ==
    IF index < 0 \/ index >= s.length
    THEN Raise("IndexError", "Index out of range")
    ELSE IF index < s.length \div 2
    THEN LET w == StepsNext(s.heap, s.head, index)
         IN  IF ~w.ok \/ w.node = Null
             THEN Raise("AssertionError", "")
             ELSE Return(s.heap[w.node].value)
    ELSE LET w == StepsPrev(s.heap, s.tail, s.length - index)
         IN  IF ~w.ok \/ w.node = Null
             THEN Raise("AssertionError", "")
             ELSE Return(s.heap[w.node].value)

\* Variant: get raising `IndexError()` with no message.
get_bare_index_error(s, index) ==
    IF index < 0 \/ index >= s.length
    THEN Raise("IndexError", "")
    ELSE IF index < s.length \div 2
    THEN LET w == StepsNext(s.heap, s.head, index)
         IN  IF ~w.ok \/ w.node = Null
             THEN Raise("AssertionError", "")
             ELSE Return(s.heap[w.node].value)
    ELSE LET w == StepsPrev(s.heap, s.tail, s.length - index - 1)
         IN  IF ~w.ok \/ w.node = Null
             THEN Raise("AssertionError", "")
             ELSE Return(s.heap[w.node].value)

\* get(index): what the call returns or raises (it assigns nothing).
get(s, index) ==
    IF index < 0 \/ index >= s.length
    THEN Raise("IndexError", "Index out of range")
    ELSE IF index < s.length \div 2
    THEN LET w == StepsNext(s.heap, s.head, index)
         IN  IF ~w.ok \/ w.node = Null
             THEN Raise("AssertionError", "")
             ELSE Return(s.heap[w.node].value)
    ELSE LET w == StepsPrev(s.heap, s.tail, s.length - index - 1)
         IN  IF ~w.ok \/ w.node = Null
             THEN Raise("AssertionError", "")
             ELSE Return(s.heap[w.node].value)

\* The iterations `for _ in range(n)` makes.
RangeLen(n) == IF n > 0 THEN n ELSE 0

\* Variant: get taking the forward branch on `index <= self.length // 2`.
get_walk_inclusive_half(s, index) ==
    IF index <= s.length \div 2
    THEN [from |-> "head", steps |-> RangeLen(index)]
    ELSE [from |-> "tail", steps |-> RangeLen(s.length - index - 1)]

\* get(index) for an index in bounds: the end the walk starts from and the
\* number of `current = current.next` / `current = current.prev` it makes.
get_walk(s, index) ==
    IF index < s.length \div 2
    THEN [from |-> "head", steps |-> RangeLen(index)]
    ELSE [from |-> "tail", steps |-> RangeLen(s.length - index - 1)]

\* ------------------------------------------- linked_list.py, no length kept

\* linked_list.py append_left(value)
ll_append_left(s, value) ==
    LET new_node == NewId(s.heap)
        h1 == Alloc(s.heap, new_node, value)
    IN  IF s.head = Null
        THEN [head |-> new_node, tail |-> new_node, heap |-> h1,
              ret |-> ReturnNone]
        ELSE LET h2 == [h1 EXCEPT ![new_node].next = s.head]
                 h3 == [h2 EXCEPT ![s.head].prev = new_node]
             IN  [head |-> new_node, tail |-> s.tail, heap |-> h3,
                  ret |-> ReturnNone]

\* linked_list.py append_right(value)
ll_append_right(s, value) ==
    LET new_node == NewId(s.heap)
        h1 == Alloc(s.heap, new_node, value)
    IN  IF s.tail = Null
        THEN [head |-> new_node, tail |-> new_node, heap |-> h1,
              ret |-> ReturnNone]
        ELSE LET h2 == [h1 EXCEPT ![new_node].prev = s.tail]
                 h3 == [h2 EXCEPT ![s.tail].next = new_node]
             IN  [head |-> s.head, tail |-> new_node, heap |-> h3,
                  ret |-> ReturnNone]

\* linked_list.py pop_left()
ll_pop_left(s) ==
    IF s.head = Null
    THEN [head |-> s.head, tail |-> s.tail, heap |-> s.heap,
          ret |-> ReturnNone]
    ELSE LET removed_value == s.heap[s.head].value
         IN  IF s.head = s.tail
             THEN [head |-> Null, tail |-> Null, heap |-> s.heap,
                   ret |-> Return(removed_value)]
             ELSE LET head1 == s.heap[s.head].next
                  IN  IF head1 = Null
                      THEN [head |-> head1, tail |-> s.tail, heap |-> s.heap,
                            ret |-> Raise("AssertionError", "")]
                      ELSE [head |-> head1, tail |-> s.tail,
                            heap |-> [s.heap EXCEPT ![head1].prev = Null],
                            ret |-> Return(removed_value)]

\* Variant: linked_list.py pop_right without `self.tail.next = None`.
ll_pop_right_keeps_next(s) ==
    IF s.tail = Null
    THEN [head |-> s.head, tail |-> s.tail, heap |-> s.heap,
          ret |-> ReturnNone]
    ELSE LET removed_value == s.heap[s.tail].value
         IN  IF s.head = s.tail
             THEN [head |-> Null, tail |-> Null, heap |-> s.heap,
                   ret |-> Return(removed_value)]
             ELSE LET tail1 == s.heap[s.tail].prev
                  IN  IF tail1 = Null
                      THEN [head |-> s.head, tail |-> tail1, heap |-> s.heap,
                            ret |-> Raise("AssertionError", "")]
                      ELSE [head |-> s.head, tail |-> tail1,
                            heap |-> s.heap,
                            ret |-> Return(removed_value)]

\* linked_list.py pop_right()
ll_pop_right(s) ==
    IF s.tail = Null
    THEN [head |-> s.head, tail |-> s.tail, heap |-> s.heap,
          ret |-> ReturnNone]
    ELSE LET removed_value == s.heap[s.tail].value
         IN  IF s.head = s.tail
             THEN [head |-> Null, tail |-> Null, heap |-> s.heap,
                   ret |-> Return(removed_value)]
             ELSE LET tail1 == s.heap[s.tail].prev
                  IN  IF tail1 = Null
                      THEN [head |-> s.head, tail |-> tail1, heap |-> s.heap,
                            ret |-> Raise("AssertionError", "")]
                      ELSE [head |-> s.head, tail |-> tail1,
                            heap |-> [s.heap EXCEPT ![tail1].next = Null],
                            ret |-> Return(removed_value)]

\* ----------------------------------------------------------------- observers

\* The observers after an append of v on `side`, made in list state `before`.
ObsAppend(side, v, before) ==
    /\ run' = IF run # <<>> /\ popped = <<>> /\ runSide = side
              THEN Append(run, [value |-> v, before |-> before])
              ELSE <<[value |-> v, before |-> before]>>
    /\ runSide' = side
    /\ popped' = <<>>
    /\ popSide' = "none"

\* The observers after a pop on `side` that handed back `ret`.
ObsPop(side, ret) ==
    IF run # <<>> /\ Len(popped) < Len(run) /\ (popped = <<>> \/ popSide = side)
    THEN /\ popped' = Append(popped, ret)
         /\ popSide' = side
         /\ UNCHANGED <<run, runSide>>
    ELSE /\ run' = <<>>
         /\ runSide' = "none"
         /\ popped' = <<>>
         /\ popSide' = "none"

\* Any other call ends the run.
ObsReset ==
    /\ run' = <<>>
    /\ runSide' = "none"
    /\ popped' = <<>>
    /\ popSide' = "none"

\* ------------------------------------------------------------------ actions

\* DoublyLinkedList.__init__, before any call.
Init ==
    /\ head = Null
    /\ tail = Null
    /\ length = 0
    /\ heap = << >>
    /\ lastOp = "init"
    /\ arg = 0
    /\ result = ReturnNone
    /\ seq = <<>>
    /\ expected = ReturnNone
    /\ run = <<>>
    /\ runSide = "none"
    /\ popped = <<>>
    /\ popSide = "none"
    /\ ll = [head |-> Null, tail |-> Null, heap |-> << >>]
    /\ llResult = ReturnNone
    /\ frame = IdleFrame
    /\ its = [i \in IterIds |-> NewIterator]

\* The list after a call that left it as `r` says.
Becomes(r) ==
    /\ head' = r.head
    /\ tail' = r.tail
    /\ length' = r.length
    /\ heap' = Collect(r).heap
    /\ result' = r.ret

\* A call dll.append_left(v).
AppendLeft ==
    /\ Cardinality(DOMAIN heap) < MaxNodes
    /\ \E v \in Values :
          /\ Becomes(append_left(Self, v))
          /\ lastOp' = "append_left"
          /\ arg' = v
          /\ seq' = <<v>> \o seq
          /\ expected' = ReturnNone
          /\ ObsAppend("left", v, Self)
          /\ UNCHANGED extraVars

\* A call dll.append_right(v).
AppendRight ==
    /\ Cardinality(DOMAIN heap) < MaxNodes
    /\ \E v \in Values :
          /\ Becomes(append_right(Self, v))
          /\ lastOp' = "append_right"
          /\ arg' = v
          /\ seq' = Append(seq, v)
          /\ expected' = ReturnNone
          /\ ObsAppend("right", v, Self)
          /\ UNCHANGED extraVars

\* A call dll.pop_left().
PopLeft ==
    /\ Becomes(pop_left(Self))
    /\ lastOp' = "pop_left"
    /\ arg' = 0
    /\ seq' = IF seq = <<>> THEN seq ELSE Tail(seq)
    /\ expected' = IF seq = <<>> THEN ReturnNone ELSE Return(Head(seq))
    /\ ObsPop("left", result')
    /\ UNCHANGED extraVars

\* A call dll.pop_right().
PopRight ==
    /\ Becomes(pop_right(Self))
    /\ lastOp' = "pop_right"
    /\ arg' = 0
    /\ seq' = IF seq = <<>> THEN seq ELSE SubSeq(seq, 1, Len(seq) - 1)
    /\ expected' = IF seq = <<>> THEN ReturnNone ELSE Return(seq[Len(seq)])
    /\ ObsPop("right", result')
    /\ UNCHANGED extraVars

\* Variant: get walking forward with `self.head` itself as the cursor.
Get_moving_head ==
    \E index \in Indexes :
        /\ result' = get(Self, index)
        /\ lastOp' = "get"
        /\ arg' = index
        /\ head' = IF 0 <= index /\ index < length \div 2
                   THEN StepsNext(heap, head, index).node
                   ELSE head
        /\ UNCHANGED <<tail, length, heap, seq, expected>>
        /\ ObsReset
        /\ UNCHANGED extraVars

\* A call dll.get(index).
Get ==
    \E index \in Indexes :
        /\ result' = get(Self, index)
        /\ lastOp' = "get"
        /\ arg' = index
        /\ UNCHANGED <<head, tail, length, heap, seq, expected>>
        /\ ObsReset
        /\ UNCHANGED extraVars

Next == AppendLeft \/ AppendRight \/ PopLeft \/ PopRight \/ Get

Spec == Init /\ [][Next]_vars

\* ------------------------------------ the mutators, one statement at a time
\* frame.pc is the line of doubly_linked_list.py about to run.

\* The statement ran and the call goes on at `line`.
Goto(s, f, line) == [list |-> s, frame |-> [f EXCEPT !.pc = line],
                     ret |-> ReturnNone]

\* The statement ran and left the frame as `f`.
Running(s, f) == [list |-> s, frame |-> f, ret |-> ReturnNone]

\* The call returned or raised `ret`.
Returns(s, ret) == [list |-> s, frame |-> IdleFrame, ret |-> ret]

\* append_left, the statement at f.pc.
step_append_left(s, f) ==
    CASE f.pc = 69 ->
            LET id == NewId(s.heap)
            IN  Running([s EXCEPT !.heap = Alloc(s.heap, id, f.value)],
                        [f EXCEPT !.new_node = id, !.pc = 70])
      [] f.pc = 70 -> Goto([s EXCEPT !.length = s.length + 1], f, 71)
      [] f.pc = 71 ->
            IF s.head = Null THEN Goto(s, f, 72) ELSE Goto(s, f, 75)
      [] f.pc = 72 -> Goto([s EXCEPT !.tail = f.new_node], f, 73)
      [] f.pc = 73 -> Goto([s EXCEPT !.head = f.new_node], f, 74)
      [] f.pc = 74 -> Returns(s, ReturnNone)
      [] f.pc = 75 ->
            Goto([s EXCEPT !.heap = [s.heap EXCEPT ![f.new_node].next = s.head]],
                 f, 76)
      [] f.pc = 76 ->
            Goto([s EXCEPT !.heap = [s.heap EXCEPT ![s.head].prev = f.new_node]],
                 f, 77)
      [] f.pc = 77 -> Returns([s EXCEPT !.head = f.new_node], ReturnNone)

\* append_right, the statement at f.pc.
step_append_right(s, f) ==
    CASE f.pc = 81 ->
            LET id == NewId(s.heap)
            IN  Running([s EXCEPT !.heap = Alloc(s.heap, id, f.value)],
                        [f EXCEPT !.new_node = id, !.pc = 82])
      [] f.pc = 82 -> Goto([s EXCEPT !.length = s.length + 1], f, 83)
      [] f.pc = 83 ->
            IF s.tail = Null THEN Goto(s, f, 84) ELSE Goto(s, f, 87)
      [] f.pc = 84 -> Goto([s EXCEPT !.tail = f.new_node], f, 85)
      [] f.pc = 85 -> Goto([s EXCEPT !.head = f.new_node], f, 86)
      [] f.pc = 86 -> Returns(s, ReturnNone)
      [] f.pc = 87 ->
            Goto([s EXCEPT !.heap = [s.heap EXCEPT ![f.new_node].prev = s.tail]],
                 f, 88)
      [] f.pc = 88 ->
            Goto([s EXCEPT !.heap = [s.heap EXCEPT ![s.tail].next = f.new_node]],
                 f, 89)
      [] f.pc = 89 -> Returns([s EXCEPT !.tail = f.new_node], ReturnNone)

\* Variant: pop_left without line 108, `self.head.prev = None`.
step_pop_left_skips_108(s, f) ==
    CASE f.pc = 98 ->
            IF s.head = Null THEN Goto(s, f, 99) ELSE Goto(s, f, 100)
      [] f.pc = 99 -> Returns(s, ReturnNone)
      [] f.pc = 100 ->
            Running(s, [f EXCEPT !.removed_value = s.heap[s.head].value,
                                 !.pc = 101])
      [] f.pc = 101 ->
            IF s.head = s.tail THEN Goto(s, f, 102) ELSE Goto(s, f, 106)
      [] f.pc = 102 -> Goto([s EXCEPT !.head = Null], f, 103)
      [] f.pc = 103 -> Goto([s EXCEPT !.tail = Null], f, 104)
      [] f.pc = 104 -> Goto([s EXCEPT !.length = 0], f, 105)
      [] f.pc = 105 -> Returns(s, Return(f.removed_value))
      [] f.pc = 106 -> Goto([s EXCEPT !.head = s.heap[s.head].next], f, 107)
      [] f.pc = 107 ->
            IF s.head = Null
            THEN Returns(s, Raise("AssertionError", ""))
            ELSE Goto(s, f, 108)
      [] f.pc = 108 -> Goto(s, f, 109)
      [] f.pc = 109 -> Goto([s EXCEPT !.length = s.length - 1], f, 110)
      [] f.pc = 110 -> Returns(s, Return(f.removed_value))

\* pop_left, the statement at f.pc.
step_pop_left(s, f) ==
    CASE f.pc = 98 ->
            IF s.head = Null THEN Goto(s, f, 99) ELSE Goto(s, f, 100)
      [] f.pc = 99 -> Returns(s, ReturnNone)
      [] f.pc = 100 ->
            Running(s, [f EXCEPT !.removed_value = s.heap[s.head].value,
                                 !.pc = 101])
      [] f.pc = 101 ->
            IF s.head = s.tail THEN Goto(s, f, 102) ELSE Goto(s, f, 106)
      [] f.pc = 102 -> Goto([s EXCEPT !.head = Null], f, 103)
      [] f.pc = 103 -> Goto([s EXCEPT !.tail = Null], f, 104)
      [] f.pc = 104 -> Goto([s EXCEPT !.length = 0], f, 105)
      [] f.pc = 105 -> Returns(s, Return(f.removed_value))
      [] f.pc = 106 -> Goto([s EXCEPT !.head = s.heap[s.head].next], f, 107)
      [] f.pc = 107 ->
            IF s.head = Null
            THEN Returns(s, Raise("AssertionError", ""))
            ELSE Goto(s, f, 108)
      [] f.pc = 108 ->
            Goto([s EXCEPT !.heap = [s.heap EXCEPT ![s.head].prev = Null]],
                 f, 109)
      [] f.pc = 109 -> Goto([s EXCEPT !.length = s.length - 1], f, 110)
      [] f.pc = 110 -> Returns(s, Return(f.removed_value))

\* pop_right, the statement at f.pc.
step_pop_right(s, f) ==
    CASE f.pc = 119 ->
            IF s.tail = Null THEN Goto(s, f, 120) ELSE Goto(s, f, 121)
      [] f.pc = 120 -> Returns(s, ReturnNone)
      [] f.pc = 121 ->
            Running(s, [f EXCEPT !.removed_value = s.heap[s.tail].value,
                                 !.pc = 122])
      [] f.pc = 122 ->
            IF s.head = s.tail THEN Goto(s, f, 123) ELSE Goto(s, f, 127)
      [] f.pc = 123 -> Goto([s EXCEPT !.head = Null], f, 124)
      [] f.pc = 124 -> Goto([s EXCEPT !.tail = Null], f, 125)
      [] f.pc = 125 -> Goto([s EXCEPT !.length = 0], f, 126)
      [] f.pc = 126 -> Returns(s, Return(f.removed_value))
      [] f.pc = 127 -> Goto([s EXCEPT !.tail = s.heap[s.tail].prev], f, 128)
      [] f.pc = 128 ->
            IF s.tail = Null
            THEN Returns(s, Raise("AssertionError", ""))
            ELSE Goto(s, f, 129)
      [] f.pc = 129 ->
            Goto([s EXCEPT !.heap = [s.heap EXCEPT ![s.tail].next = Null]],
                 f, 130)
      [] f.pc = 130 -> Goto([s EXCEPT !.length = s.length - 1], f, 131)
      [] f.pc = 131 -> Returns(s, Return(f.removed_value))

\* What the statement-by-statement run leaves untouched.
stepsUnchanged == <<seq, expected, run, runSide, popped, popSide,
                    ll, llResult, its>>

\* The objects referenced while a call runs: those head, tail and the local
\* new_node reach.
StepCollect(s, f) ==
    LET live == Reach(s.heap, {s.head, s.tail, f.new_node} \ {Null})
    IN  [n \in live |-> s.heap[n]]

\* One statement of the call `op` has run and left things as `r` says.
Takes(r, op) ==
    /\ head' = r.list.head
    /\ tail' = r.list.tail
    /\ length' = r.list.length
    /\ heap' = StepCollect(r.list, r.frame)
    /\ frame' = r.frame
    /\ IF r.frame.op = "idle"
       THEN lastOp' = op /\ arg' = frame.value /\ result' = r.ret
       ELSE UNCHANGED <<lastOp, arg, result>>
    /\ UNCHANGED stepsUnchanged

\* A caller enters `op` at its first statement, `line`, with argument v.
Enters(op, line, v) ==
    /\ frame.op = "idle"
    /\ frame' = [IdleFrame EXCEPT !.op = op, !.pc = line, !.value = v]
    /\ UNCHANGED <<head, tail, length, heap, lastOp, arg, result>>
    /\ UNCHANGED stepsUnchanged

CallAppendLeft ==
    /\ Cardinality(DOMAIN heap) < MaxNodes
    /\ \E v \in Values : Enters("append_left", 69, v)

CallAppendRight ==
    /\ Cardinality(DOMAIN heap) < MaxNodes
    /\ \E v \in Values : Enters("append_right", 81, v)

CallPopLeft == Enters("pop_left", 98, 0)

CallPopRight == Enters("pop_right", 119, 0)

StepAppendLeft ==
    /\ frame.op = "append_left"
    /\ Takes(step_append_left(Self, frame), "append_left")

StepAppendRight ==
    /\ frame.op = "append_right"
    /\ Takes(step_append_right(Self, frame), "append_right")

StepPopLeft ==
    /\ frame.op = "pop_left"
    /\ Takes(step_pop_left(Self, frame), "pop_left")

StepPopRight ==
    /\ frame.op = "pop_right"
    /\ Takes(step_pop_right(Self, frame), "pop_right")

NextSteps ==
    \/ CallAppendLeft \/ CallAppendRight \/ CallPopLeft \/ CallPopRight
    \/ StepAppendLeft \/ StepAppendRight \/ StepPopLeft \/ StepPopRight

SpecSteps == Init /\ [][NextSteps]_vars

\* -------------------------------------------- generators and the mutators

\* Variant: __iter__ with `while current and current.next:`.
gen_next_stops_before_last(s, g) ==
    LET current == IF g.state = "created" THEN s.head
                   ELSE s.heap[g.current].next
    IN  IF current # Null /\ s.heap[current].next # Null
        THEN [state |-> "suspended", current |-> current,
              ret |-> Return(s.heap[current].value)]
        ELSE [state |-> "done", current |-> Null,
              ret |-> Raise("StopIteration", "")]

\* Variant: __iter__ without `current = current.next`.
gen_next_no_advance(s, g) ==
    LET current == IF g.state = "created" THEN s.head
                   ELSE g.current
    IN  IF current # Null
        THEN [state |-> "suspended", current |-> current,
              ret |-> Return(s.heap[current].value)]
        ELSE [state |-> "done", current |-> Null,
              ret |-> Raise("StopIteration", "")]

\* next() on a generator of __iter__ that is not exhausted: the body runs
\* from its start (`current = self.head`) or from the yield it is suspended
\* at (`current = current.next`) to the next yield, or to its end.
gen_next(s, g) ==
    LET current == IF g.state = "created" THEN s.head
                   ELSE s.heap[g.current].next
    IN  IF current # Null
        THEN [state |-> "suspended", current |-> current,
              ret |-> Return(s.heap[current].value)]
        ELSE [state |-> "done", current |-> Null,
              ret |-> Raise("StopIteration", "")]

\* The objects referenced: those head, tail and the generators' `current`
\* reach.
IterCollect(s, gs) ==
    LET roots == {s.head, s.tail} \cup {gs[i].current : i \in IterIds}
        live == Reach(s.heap, roots \ {Null})
    IN  [n \in live |-> s.heap[n]]

\* The observer's notes once a call of kind `what` has changed the list
\* under a generator that has started.
Mutated(gs, what) ==
    [i \in IterIds |->
        IF gs[i].state = "created" THEN gs[i]
        ELSE [gs[i] EXCEPT !.mutated = what]]

\* No generator has started: the calls that fill the list come before the
\* iterations over it, the pops come at any time.
NoneStarted == \A i \in IterIds : its[i].state = "created"

\* What the runs with generators leave untouched.
iterUnchanged == <<lastOp, arg, result, seq, expected, run, runSide, popped,
                   popSide, ll, llResult, frame>>

\* The list after a call that left it as `r` says, generators alive.
IterBecomes(r, what) ==
    /\ head' = r.head
    /\ tail' = r.tail
    /\ length' = r.length
    /\ heap' = IterCollect(r, its)
    /\ its' = Mutated(its, what)

\* dll.append_left(v) before the generators start.
IterAppendLeft ==
    /\ NoneStarted
    /\ Cardinality(DOMAIN heap) < MaxIterNodes
    /\ \E v \in Values : IterBecomes(append_left(Self, v), "appends")
    /\ UNCHANGED iterUnchanged

\* dll.append_right(v) before the generators start.
IterAppendRight ==
    /\ NoneStarted
    /\ Cardinality(DOMAIN heap) < MaxIterNodes
    /\ \E v \in Values : IterBecomes(append_right(Self, v), "appends")
    /\ UNCHANGED iterUnchanged

\* dll.pop_left() while generators are alive.
IterPopLeft ==
    /\ IterBecomes(pop_left(Self), "pops")
    /\ UNCHANGED iterUnchanged

\* dll.pop_right() while generators are alive.
IterPopRight ==
    /\ IterBecomes(pop_right(Self), "pops")
    /\ UNCHANGED iterUnchanged

\* next(g) on generator i.
IterNext(i) ==
    /\ its[i].state # "done"
    /\ LET n == gen_next(Self, its[i])
           g == [its[i] EXCEPT
                   !.state = n.state,
                   !.current = n.current,
                   !.yielded = IF n.state = "suspended"
                               THEN Append(@, n.ret.val) ELSE @,
                   !.visited = IF n.state = "suspended"
                               THEN Append(@, n.current) ELSE @,
                   !.start = IF its[i].state = "created"
                             THEN Forward(Self) ELSE @,
                   !.contents = IF its[i].state = "created"
                                THEN Iter(Self) ELSE @]
           gs == [its EXCEPT ![i] = g]
       IN  /\ its' = gs
           /\ heap' = IterCollect(Self, gs)
    /\ UNCHANGED <<head, tail, length>>
    /\ UNCHANGED iterUnchanged

\* iter(dll) again, in place of exhausted generator i, which is dropped.
IterRequest(i) ==
    /\ its[i].state = "done"
    /\ its' = [its EXCEPT ![i] = NewIterator]
    /\ UNCHANGED <<head, tail, length, heap>>
    /\ UNCHANGED iterUnchanged

NextIter ==
    \/ IterAppendLeft \/ IterAppendRight \/ IterPopLeft \/ IterPopRight
    \/ \E i \in IterIds : IterNext(i)
    \/ \E i \in IterIds : IterRequest(i)

SpecIter == Init /\ [][NextIter]_vars

\* ------------------------------- both modules, the same calls on each list

\* The linked_list.py list after a call that left it as `r` says.
LLBecomes(r) ==
    /\ ll' = [head |-> r.head, tail |-> r.tail, heap |-> Collect(r).heap]
    /\ llResult' = r.ret

\* What the side-by-side run leaves untouched.
bothUnchanged == <<seq, expected, run, runSide, popped, popSide,
                   frame, its>>

\* append_left(v) on both lists.
BothAppendLeft ==
    /\ Cardinality(DOMAIN heap) < MaxNodes
    /\ Cardinality(DOMAIN ll.heap) < MaxNodes
    /\ \E v \in Values :
          /\ Becomes(append_left(Self, v))
          /\ LLBecomes(ll_append_left(ll, v))
          /\ lastOp' = "append_left"
          /\ arg' = v
    /\ UNCHANGED bothUnchanged

\* append_right(v) on both lists.
BothAppendRight ==
    /\ Cardinality(DOMAIN heap) < MaxNodes
    /\ Cardinality(DOMAIN ll.heap) < MaxNodes
    /\ \E v \in Values :
          /\ Becomes(append_right(Self, v))
          /\ LLBecomes(ll_append_right(ll, v))
          /\ lastOp' = "append_right"
          /\ arg' = v
    /\ UNCHANGED bothUnchanged

\* pop_left() on both lists.
BothPopLeft ==
    /\ Becomes(pop_left(Self))
    /\ LLBecomes(ll_pop_left(ll))
    /\ lastOp' = "pop_left"
    /\ arg' = 0
    /\ UNCHANGED bothUnchanged

\* pop_right() on both lists.
BothPopRight ==
    /\ Becomes(pop_right(Self))
    /\ LLBecomes(ll_pop_right(ll))
    /\ lastOp' = "pop_right"
    /\ arg' = 0
    /\ UNCHANGED bothUnchanged

NextBoth == BothAppendLeft \/ BothAppendRight \/ BothPopLeft \/ BothPopRight

SpecBoth == Init /\ [][NextBoth]_vars

\* ------------------------------------------------------------------ claims

Appends == {"append_left", "append_right"}

Pops == {"pop_left", "pop_right"}

\* The list is empty: no head, no tail, length 0.
IsEmpty(s) == s.head = Null /\ s.tail = Null /\ s.length = 0

\* The list is as it was in `before`: same head, tail and length, same
\* elements, and every node of `before` with the links it had.
Restored(before) ==
    /\ head = before.head
    /\ tail = before.tail
    /\ length = before.length
    /\ Iter(Self) = Iter(before)
    /\ Forward(Self) = Forward(before)
    /\ \A i \in 1..Len(Forward(before)) :
          LET n == Forward(before)[i]
          IN  n \in DOMAIN heap /\ heap[n] = before.heap[n]

\* C1: from an empty list, under any sequence of append_left, append_right,
\* pop_left and pop_right, a full iteration yields exactly the abstract
\* sequence (append_left prepends, append_right appends, the pops remove the
\* first / the last element), and each of these calls returns what the
\* abstract sequence says: the removed element, or None.
C1_BehavesAsSequence ==
    /\ Iter(Self) = seq
    /\ lastOp \in Appends \cup Pops => result = expected

\* A pop_left has just returned the first of at least three elements, leaving
\* two different ones.
C1_Witness ==
    /\ lastOp = "pop_left"
    /\ result.kind = "value"
    /\ Len(seq) >= 2
    /\ seq[1] # seq[2]
    /\ Iter(Self) = seq

\* C2: after any sequence of public operations, length equals the number of
\* nodes reachable from head by next, which is the number of elements a full
\* iteration produces.
C2_LengthIsNodeCount ==
    /\ length = Len(Forward(Self))
    /\ length = Len(Iter(Self))

\* A pop_right has just shortened a list to two nodes.
C2_Witness == lastOp = "pop_right" /\ result.kind = "value" /\ length = 2

\* C3: head is absent iff tail is absent iff length == 0.
C3_EmptyIffNoHeadNoTail ==
    /\ (head = Null) <=> (tail = Null)
    /\ (tail = Null) <=> (length = 0)

\* A pop_left has just removed the only node.
C3_Witness ==
    /\ lastOp = "pop_left"
    /\ result.kind = "value"
    /\ head = Null /\ tail = Null /\ length = 0

\* C4: on a non-empty list head.prev and tail.next are absent, next and prev
\* are inverses on every node reachable from head, and following prev from
\* tail visits the nodes that following next from head visits, in reverse.
C4_LinksAreInverse ==
    head # Null =>
        /\ tail # Null
        /\ heap[head].prev = Null
        /\ heap[tail].next = Null
        /\ \A i \in 1..Len(Forward(Self)) :
              LET n == Forward(Self)[i]
              IN  /\ heap[n].next # Null => heap[heap[n].next].prev = n
                  /\ heap[n].prev # Null => heap[heap[n].prev].next = n
        /\ Backward(Self) = Reverse(Forward(Self))

\* A pop_left has just left a list of three nodes.
C4_Witness == lastOp = "pop_left" /\ result.kind = "value" /\ length = 3

\* C5: pop_left and pop_right on an empty list return None, raise nothing and
\* leave head, tail and length absent, absent and 0 (so the next pop meets an
\* empty list again).
C5_EmptyPop ==
    [][(IsEmpty(Self) /\ lastOp' \in Pops) =>
          /\ result' = ReturnNone
          /\ head' = Null /\ tail' = Null /\ length' = 0
          /\ heap' = heap]_vars

\* A pop_right on an empty list has returned None.
C5_Witness ==
    /\ lastOp = "pop_right"
    /\ result = ReturnNone
    /\ IsEmpty(Self)
    /\ seq = << >>

\* C6: get(index) with index < 0 or index >= length raises IndexError,
\* returns no value (no clamping, no wrapping) and leaves the list as it was.
C6_GetOutOfBounds ==
    [][(lastOp' = "get" /\ (arg' < 0 \/ arg' >= length)) =>
          /\ result'.kind = "IndexError"
          /\ UNCHANGED listVars]_vars

\* get(-1) on a list of two or more elements has raised IndexError.
C6_Witness ==
    /\ lastOp = "get"
    /\ arg = 0 - 1
    /\ length >= 2
    /\ result.kind = "IndexError"

\* C7: get(index) with 0 <= index < length returns the value a full iteration
\* yields at position index, from either branch.
C7_GetReturnsIterated ==
    (lastOp = "get" /\ 0 <= arg /\ arg < length) =>
        /\ arg < Len(Iter(Self))
        /\ result = Return(Iter(Self)[arg + 1])

\* get(1) on four elements (forward branch, one step) has returned the second
\* element, which differs from the first and the third.
C7_Witness ==
    /\ lastOp = "get"
    /\ arg = 1
    /\ length = 4
    /\ result.kind = "value"
    /\ Iter(Self)[1] # Iter(Self)[2]
    /\ Iter(Self)[3] # Iter(Self)[2]

\* C8: append_left(v) followed immediately by pop_left() returns v and leaves
\* the list as it was before the append (head, tail, length, elements, links
\* of every node); likewise append_right(v) then pop_right().
C8_AppendPopSymmetry ==
    (lastOp \in Pops /\ Len(popped) = 1 /\ popSide = runSide) =>
        /\ result = Return(run[Len(run)].value)
        /\ Restored(run[Len(run)].before)

\* append_left then pop_left on a list that had two or more elements.
C8_Witness ==
    /\ lastOp = "pop_left"
    /\ Len(popped) = 1
    /\ popSide = "left" /\ runSide = "left"
    /\ length >= 2

\* C9: n appends on one side then n pops on that side return the elements in
\* reverse order of insertion; from an empty list, n appends on one side then
\* n pops on the other side return them in insertion order; either way the
\* list ends as it started.
C9_RoundTrip ==
    /\ (popped # << >> /\ popSide = runSide) =>
          LET k == Len(popped)
              n == Len(run)
          IN  /\ popped = [i \in 1..k |-> Return(run[n + 1 - i].value)]
              /\ Restored(run[n + 1 - k].before)
    /\ (popped # << >> /\ popSide # runSide /\ Len(popped) = Len(run)
            /\ IsEmpty(run[1].before)) =>
          /\ popped = [i \in 1..Len(run) |-> Return(run[i].value)]
          /\ Restored(run[1].before)

\* Three appends on one side of an empty list, then three pops on the other,
\* with a first value that differs from the last.
C9_Witness ==
    /\ Len(popped) = 3
    /\ Len(run) = 3
    /\ popSide # runSide
    /\ IsEmpty(run[1].before)
    /\ run[1].value # run[3].value

\* The one-node shape: head and tail are the same node, with no next, no prev.
SingleNode ==
    length = 1 =>
        /\ head # Null
        /\ head = tail
        /\ heap[head].next = Null
        /\ heap[head].prev = Null

\* C10: whenever length == 1 the list has the one-node shape; a pop on a
\* two-element list leaves it so, and a pop on a one-element list leaves
\* head absent, tail absent and length 0.
C10_SingleElementCollapse ==
    /\ []SingleNode
    /\ [][/\ (length = 2 /\ lastOp' \in Pops) => (length' = 1 /\ SingleNode')
          /\ (length = 1 /\ lastOp' \in Pops) =>
                (head' = Null /\ tail' = Null /\ length' = 0)]_vars

\* A pop_right has just left one node, on a list that had two.
C10_Witness ==
    /\ lastOp = "pop_right"
    /\ result.kind = "value"
    /\ length = 1
    /\ head = tail /\ head # Null

\* C12: get(index) has no side effects: whether it returns or raises, head,
\* tail, length and the value, next and prev of every node are as before.
C12_GetHasNoEffect ==
    [][lastOp' = "get" => UNCHANGED <<head, tail, length, heap>>]_vars

\* get(2) has returned the last of three elements.
C12_Witness ==
    /\ lastOp = "get"
    /\ arg = 2
    /\ length = 3
    /\ result.kind = "value"

\* C13 as stated: the offending index is recoverable from the error get
\* raises, so two calls with different invalid indexes raise different errors.
C13_ErrorCarriesIndex ==
    [][(/\ lastOp = "get" /\ result.kind = "IndexError"
        /\ lastOp' = "get" /\ result'.kind = "IndexError"
        /\ arg' # arg) => result' # result]_vars

\* C13, amended: the error get raises for an index outside [0, length) is an
\* IndexError whose only content is the fixed message "Index out of range",
\* the same for every invalid index.
C13_ErrorIsFixedMessage ==
    (lastOp = "get" /\ (arg < 0 \/ arg >= length)) =>
        result = Raise("IndexError", "Index out of range")

\* get(length) on a non-empty list has raised the error.
C13_Witness ==
    /\ lastOp = "get"
    /\ length >= 1
    /\ arg = length
    /\ result.kind = "IndexError"
    /\ result.msg = "Index out of range"

\* C16: no internal assertion fails under any sequence of public calls: not
\* `assert self.head` in pop_left, not `assert self.tail` in pop_right, not
\* `assert current` in get.
C16_NoAssertionFails == result.kind # "AssertionError"

\* pop_left has passed `assert self.head` on a list of three, leaving two.
C16_Witness ==
    /\ lastOp = "pop_left"
    /\ length = 2
    /\ result.kind = "value"
    /\ head # tail

Min(a, b) == IF a <= b THEN a ELSE b

\* C17: for a valid index get walks forward from head for index steps when
\* index < length // 2 and otherwise backward from tail for
\* length - index - 1 steps, which is min(index, length - 1 - index) steps
\* and never more than length // 2.
C17_GetWalksShorterSide ==
    (lastOp = "get" /\ 0 <= arg /\ arg < length) =>
        LET w == get_walk(Self, arg)
        IN  /\ arg < length \div 2 => (w.from = "head" /\ w.steps = arg)
            /\ arg >= length \div 2 =>
                  (w.from = "tail" /\ w.steps = length - arg - 1)
            /\ w.steps = Min(arg, length - 1 - arg)
            /\ w.steps <= length \div 2

\* get(2) on four elements: one step back from tail, not two forward.
C17_Witness ==
    /\ lastOp = "get"
    /\ length = 4
    /\ arg = 2
    /\ result.kind = "value"
    /\ get_walk(Self, arg) = [from |-> "tail", steps |-> 1]

\* C19: every append adds exactly 1 to length, every pop on a non-empty list
\* takes exactly 1 off, length is never negative, and the branch that sets
\* length to 0 (head and tail the same node) is taken only at length 1.
C19_LengthSteps ==
    [][/\ lastOp' \in Appends => length' = length + 1
       /\ (lastOp' \in Pops /\ head # Null) => length' = length - 1
       /\ (lastOp' \in Pops /\ head # Null /\ head = tail) => length = 1
       /\ length' >= 0]_vars

\* pop_right has taken the branch that sets length to 0.
C19_Witness ==
    /\ lastOp = "pop_right"
    /\ result.kind = "value"
    /\ length = 0
    /\ tail = Null

\* C18: linked_list.py and doubly_linked_list.py, given the same calls from
\* empty, return the same from every pop (and every append) and yield the
\* same sequence on iteration after every call; head, tail and the nodes'
\* values and links are the same, length being the only extra.
C18_VariantsAgree ==
    /\ llResult = result
    /\ Iter(ll) = Iter(Self)
    /\ ll = [head |-> head, tail |-> tail, heap |-> heap]

\* Both pop_left calls have returned the same value and left the same two
\* or more elements.
C18_Witness ==
    /\ lastOp = "pop_left"
    /\ result.kind = "value"
    /\ llResult = result
    /\ Len(Iter(ll)) >= 2
    /\ Iter(ll)[1] # Iter(ll)[2]

\* The invariants on head, tail, length and the next/prev links.
StructInv ==
    /\ length = Len(Forward(Self))
    /\ (head = Null) <=> (tail = Null)
    /\ (tail = Null) <=> (length = 0)
    /\ SingleNode
    /\ head # Null =>
          /\ tail # Null
          /\ heap[head].prev = Null
          /\ heap[tail].next = Null
          /\ Backward(Self) = Reverse(Forward(Self))

\* C14 as stated: the invariants hold between any two field assignments of
\* append_left, append_right, pop_left and pop_right, as a second execution
\* context would see the list.
C14_InvariantsAtEveryStatement == frame.op \in Appends \cup Pops => StructInv

\* C14, amended: the invariants hold whenever no call is in progress, that
\* is before and after every append_left, append_right, pop_left and
\* pop_right run statement by statement.
C14_InvariantsBetweenCalls == frame.op = "idle" => StructInv

\* A pop_left run statement by statement has returned, leaving two nodes.
C14_Witness ==
    /\ frame = IdleFrame
    /\ lastOp = "pop_left"
    /\ result.kind = "value"
    /\ length = 2
    /\ StructInv

\* The generators that have started.
Started == {i \in IterIds : its[i].state # "created"}

\* q is the first Len(q) elements of r.
IsPrefix(q, r) == Len(q) <= Len(r) /\ q = SubSeq(r, 1, Len(q))

\* C11: an iteration over a list that no call changes while it runs yields
\* the head-to-tail sequence element by element, whatever the position of
\* any other iteration: what it has yielded is a prefix of the list, it is
\* suspended on the node at that position, the node after the last element
\* is None, and it is exhausted after exactly `length` elements (none for
\* an empty list).
C11_IterationYieldsWholeList ==
    \A i \in Started :
        its[i].mutated = "no" =>
            LET g == its[i]
                n == Len(g.yielded)
            IN  /\ IsPrefix(g.yielded, Iter(Self))
                /\ IsPrefix(g.visited, Forward(Self))
                /\ n <= length
                /\ g.state = "suspended" =>
                      /\ n >= 1
                      /\ g.current = Forward(Self)[n]
                      /\ (heap[g.current].next = Null) <=> (n = length)
                /\ g.state = "done" =>
                      /\ n = length
                      /\ g.yielded = Iter(Self)

\* One iteration has yielded the whole list while another, requested on the
\* same list, is suspended after its first element.
C11_Witness ==
    /\ length >= 2
    /\ its[1].state = "done"
    /\ its[1].mutated = "no"
    /\ its[1].yielded = Iter(Self)
    /\ its[2].state = "suspended"
    /\ its[2].mutated = "no"
    /\ Len(its[2].yielded) = 1

\* The nodes of the list, and the nodes still referenced that a pop has
\* taken off it.
ListNodes == {Forward(Self)[k] : k \in 1..Len(Forward(Self))}
OffList == DOMAIN heap \ ListNodes

\* C15: a node a pop has removed is fully detached: no node of the list
\* references it through next or prev, and it holds no next or prev
\* reference to a node of the list.
C15_RemovedNodeDetached ==
    /\ \A m \in ListNodes :
          heap[m].next \notin OffList /\ heap[m].prev \notin OffList
    /\ \A n \in OffList :
          heap[n].next \notin ListNodes /\ heap[n].prev \notin ListNodes

\* The position of node x in the sequence of nodes q, 0 when absent.
Pos(q, x) ==
    IF \E k \in 1..Len(q) : q[k] = x
    THEN CHOOSE k \in 1..Len(q) : q[k] = x
    ELSE 0

\* C20: an iteration that only pop_left and pop_right calls interleave with
\* yields an in-order subsequence of the list as it was when the iteration
\* produced its first element: every node it visits is a node of that list
\* at a strictly later position than the one before, with the value that
\* node had, so it visits no node twice and ends within that list's length;
\* the node it is suspended on exists, and so does the one it goes to next.
C20_PopsKeepIterationInOrder ==
    \A i \in Started :
        LET g == its[i]
            n == Len(g.visited)
        IN  /\ Len(g.yielded) = n
            /\ n <= Len(g.start)
            /\ \A k \in 1..n :
                  /\ Pos(g.start, g.visited[k]) >= 1
                  /\ g.yielded[k] = g.contents[Pos(g.start, g.visited[k])]
            /\ \A k \in 1..(n - 1) :
                  Pos(g.start, g.visited[k]) < Pos(g.start, g.visited[k + 1])
            /\ g.state = "suspended" =>
                  /\ n >= 1
                  /\ g.current = g.visited[n]
                  /\ g.current \in DOMAIN heap
                  /\ heap[g.current].next \in DOMAIN heap \cup {Null}
                  /\ heap[g.current].next # Null =>
                        Pos(g.start, heap[g.current].next)
                            > Pos(g.start, g.current)

\* An iteration over two or more elements is exhausted having yielded the
\* first of them only, a pop having taken the rest while it ran.
C20_Witness ==
    \E i \in IterIds :
        /\ its[i].state = "done"
        /\ its[i].mutated = "pops"
        /\ Len(its[i].start) >= 2
        /\ Len(its[i].yielded) = 1

====
